---- MODULE Spec2Model ----
(***************************************************************************)
(* Token source of the Namespace TypeScript SDK (src/src/auth/token.ts,    *)
(* src/src/auth/claims.ts): the LoadedToken class, its session-to-bearer   *)
(* exchange with the on-disk token.cache, and the claims helpers it uses.  *)
(*                                                                         *)
(* Times are in milliseconds (Date.now()), "exp" claims and the duration   *)
(* sent to the issuer are in whole seconds, as in the source.              *)
(***************************************************************************)
EXTENDS Integers, FiniteSets, Sequences, TLC

\* ---------------------------------------------------------------- bounds
\* Number of issueToken calls made in one behaviour.
MaxCalls == 2
\* Number of times the clock advances in one behaviour.
MaxTicks == 2
\* The clock starts here and advances by TickMs (both whole seconds).
NowStart == 1000 * 1000
TickMs == 30 * 1000

\* Call slots: the promises of issueToken calls that have not been consumed.
Slots == {1, 2}

\* minDuration arguments: 0, a value that is no multiple of 500 ms, the
\* interceptor's default (5 min), the clamp boundary (30 min), above 1 h.
MinDurations == {0, 1250, 5 * 60 * 1000, 30 * 60 * 1000, 2 * 60 * 60 * 1000}

\* ---------------------------------------------------------- credentials
\* A credential string, by what extractClaims can see of it:
\*   prefix     the recognised prefix it starts with ("" for none)
\*   kind       "empty"  undefined or "" (falsy),
\*              "opaque" a non-empty string that is no three-segment JWT
\*                       with a JSON payload,
\*              "jwt"    header.payload.signature with a JSON payload
\*   tenant_id  the payload's tenant_id claim, NoTenant when absent
\*   exp        the payload's exp claim in seconds, NoExp when absent
\*   jti        tells apart credentials with the same claims
NoTenant == "absent"
NoExp == 0 - 1
Tenants == {"A", "B"}

Tok(prefix, kind, tenant, exp, jti) ==
    [prefix |-> prefix, kind |-> kind, tenant_id |-> tenant, exp |-> exp, jti |-> jti]

Undefined == Tok("", "empty", NoTenant, NoExp, 0)

\* if (token) ...: undefined and "" are falsy
Truthy(token) == token.kind # "empty"

NullClaims == [isNull |-> TRUE, tenant_id |-> NoTenant, exp |-> NoExp]

\* claims.ts stripTokenPrefix: the prefix is dropped before decoding
stripTokenPrefix(token) == [token EXCEPT !.prefix = ""]

\* claims.ts extractClaims: null unless three segments with a JSON payload
extractClaims(token) ==
    LET cleanToken == stripTokenPrefix(token)
    IN  IF cleanToken.kind = "jwt"
        THEN [isNull |-> FALSE, tenant_id |-> cleanToken.tenant_id, exp |-> cleanToken.exp]
        ELSE NullClaims

\* ------------------------------------------------------------ debug flags
\* token.ts getDebugFlags / isForceAuthRefreshEnabled: NSC_DEBUG as the set
\* of its comma-separated, trimmed, lower-cased entries.
DebugSettings == {{}, {"auth"}, {"force-auth-refresh"}}

isForceAuthRefreshEnabled(flags) == "force-auth-refresh" \in flags

\* Mutant of EffectiveForce: the debug flag is not consulted.
EffectiveForceArgumentOnly(force, flags) == force

\* token.ts:237  const forceRefresh = force || isForceAuthRefreshEnabled()
EffectiveForce(force, flags) == force \/ isForceAuthRefreshEnabled(flags)

\* ------------------------------------------------------- issuance policy
oneHourMs == 60 * 60 * 1000

\* Mutant of RequestDuration: the minimum duration is not doubled.
RequestDurationNotDoubled(minDuration) ==
    IF minDuration > oneHourMs THEN oneHourMs ELSE minDuration

\* token.ts:271-276  2x the minimum duration, capped at one hour
RequestDuration(minDuration) ==
    IF minDuration * 2 > oneHourMs THEN oneHourMs ELSE minDuration * 2

\* token.ts:230  BigInt(Math.floor(durationMs / 1000))
DurationSeconds(durationMs) == durationMs \div 1000

\* token.ts:241  the forced branch passes minDuration itself
ForcedDuration(minDuration) == minDuration

\* token.ts:257-260  the cached credential is used iff its claims decode,
\* the tenants are equal (===, so two absent tenants are equal) and
\* (exp || 0) * 1000 > now + minDuration
ExpiresAtMs(claims) == (IF claims.exp = NoExp THEN 0 ELSE claims.exp) * 1000

\* Mutant of TenantMatches: the tenants are not compared.
TenantNotCompared(cacheClaims, sessionClaims) == TRUE

TenantMatches(cacheClaims, sessionClaims) ==
    cacheClaims.tenant_id = sessionClaims.tenant_id

\* Mutant of FreshEnough: the boundary counts as fresh.
FreshEnoughAtBoundary(cacheClaims, nowMs, minDuration) ==
    ExpiresAtMs(cacheClaims) >= nowMs + minDuration

\* Mutant of FreshEnough: freshness is required for the doubled duration.
FreshEnoughForDoubled(cacheClaims, nowMs, minDuration) ==
    ExpiresAtMs(cacheClaims) > nowMs + 2 * minDuration

FreshEnough(cacheClaims, nowMs, minDuration) ==
    ExpiresAtMs(cacheClaims) > nowMs + minDuration

CacheUsable(cacheClaims, sessionClaims, nowMs, minDuration) ==
    /\ ~cacheClaims.isNull
    /\ TenantMatches(cacheClaims, sessionClaims)
    /\ FreshEnough(cacheClaims, nowMs, minDuration)

\* The issuer's answer to issueTenantTokenFromSession: a tenant token for
\* the tenant of the session credential sent as Authorization (the
\* credentials of the request's header), expiring
\* tokenDuration seconds after the issuer handled the request.
Mint(session, seconds, nowMs, n) ==
    Tok("nsct_", "jwt", extractClaims(session).tenant_id, (nowMs \div 1000) + seconds, n)

\* -------------------------------------------------------- token sources
\* token.ts:178-186  LoadedToken's constructor; cacheDir is TRUE when a
\* directory was given (path.dirname of a file path is never empty)
LoadedToken(bearerToken, sessionToken, cacheDir) ==
    [bearerToken |-> bearerToken, sessionToken |-> sessionToken, cacheDir |-> cacheDir]

\* token.ts:100-104  both fields of the file as they are, and its directory
loadFromFile(file) == LoadedToken(file.bearer_token, file.session_token, TRUE)

\* Mutant of loadWorkloadToken: the session credential is kept too.
loadWorkloadTokenKeepingSession(file) == loadFromFile(file)

\* token.ts:152-160  only the bearer credential is kept
loadWorkloadToken(file) == LoadedToken(loadFromFile(file).bearerToken, Undefined, FALSE)

\* token.ts:165-167
fromBearerToken(token) == LoadedToken(token, Undefined, FALSE)

SessionA == Tok("st_", "jwt", "A", NoExp, 0)
SessionNoTenant == Tok("st_", "jwt", NoTenant, NoExp, 0)
SessionMalformed == Tok("st_", "opaque", NoTenant, NoExp, 0)
StaticBearer == Tok("nsct_", "opaque", NoTenant, NoExp, 0)

TokenJson(bearer, session) == [bearer_token |-> bearer, session_token |-> session]

CredentialFiles ==
    { TokenJson(Undefined, SessionA), TokenJson(Undefined, SessionNoTenant),
      TokenJson(Undefined, SessionMalformed), TokenJson(StaticBearer, SessionA),
      TokenJson(StaticBearer, SessionMalformed),
      TokenJson(StaticBearer, Undefined), TokenJson(Undefined, Undefined) }

\* The ways a source is constructed: <<constructor, source>>.  A workload
\* load succeeds only when the file has a bearer credential (token.ts:156).
Constructions ==
    { <<"loadFromFile", loadFromFile(f)>> : f \in CredentialFiles }
    \cup { <<"loadWorkloadToken", loadWorkloadToken(f)>> :
              f \in { g \in CredentialFiles : Truthy(loadFromFile(g).bearerToken) } }
    \cup { <<"fromBearerToken", fromBearerToken(StaticBearer)>> }

\* ------------------------------------------------------------ cache file
NoFile == [exists |-> FALSE, content |-> Undefined]
File(token) == [exists |-> TRUE, content |-> token]

StartSeconds == NowStart \div 1000

\* What token.cache can hold when the source is constructed: nothing, text
\* that is no credential, or a credential issued earlier (for this or for
\* another tenant, with or without the optional claims).
InitialCaches ==
    { NoFile, File(Tok("", "opaque", NoTenant, NoExp, 0)) }
    \cup { File(Tok("nsct_", "jwt", "A", e, 0)) :
              e \in {StartSeconds + 30, StartSeconds + 300, StartSeconds + 8000, NoExp} }
    \cup { File(Tok("nsct_", "jwt", "B", StartSeconds + 8000, 0)),
           File(Tok("nsct_", "jwt", NoTenant, StartSeconds + 8000, 0)) }


\* ----------------------------------------------------- credential loaders
\* The locations a loader reads: the file NSC_TOKEN_FILE names, the workload
\* file /var/run/nsc/token.json, and ns/token.json in the user's config
\* directory.
Paths == {"override", "workload", "user"}

\* A session credential that carries an expiration, about two hours ahead.
SessionExpiring == Tok("st_", "jwt", "A", StartSeconds + 8000, 0)

\* A credential file: missing, present and unreadable (EACCES), present with
\* text that is no JSON, or present with a JSON object.
NoJson == TokenJson(Undefined, Undefined)
FileMissing == [state |-> "missing", json |-> NoJson]
FileUnreadable == [state |-> "unreadable", json |-> NoJson]
FileInvalid == [state |-> "invalid", json |-> NoJson]
JsonFile(json) == [state |-> "json", json |-> json]

FileStates ==
    { FileMissing, FileUnreadable, FileInvalid }
    \cup { JsonFile(j) : j \in { TokenJson(StaticBearer, Undefined),
                                 TokenJson(Undefined, SessionA),
                                 TokenJson(Undefined, SessionExpiring),
                                 TokenJson(StaticBearer, SessionA),
                                 TokenJson(Undefined, Undefined) } }

NoSource == LoadedToken(Undefined, Undefined, FALSE)

NotLoggedInError == "NotLoggedInError"
NoBearerError == "Workload token file does not contain a bearer token"

\* What a loader comes to: the source it resolves with or the error it
\* rejects with, and the locations it accessed on the way.
Loaded(src, touched) == [ok |-> TRUE, error |-> "", source |-> src, touched |-> touched]
Failed(err, touched) == [ok |-> FALSE, error |-> err, source |-> NoSource, touched |-> touched]

\* token.ts:73-111  loadFromFile(tokenPath): ENOENT becomes NotLoggedInError,
\* every other error of readFile or JSON.parse is rethrown as it is
loadFromFileAt(fsys, path) ==
    LET f == fsys[path]
    IN  CASE f.state = "missing"    -> Failed(NotLoggedInError, {path})
          [] f.state = "unreadable" -> Failed("EACCES", {path})
          [] f.state = "invalid"    -> Failed("SyntaxError", {path})
          [] OTHER                  -> Loaded(loadFromFile(f.json), {path})

\* token.ts:142-146
loadUserToken(fsys) == loadFromFileAt(fsys, "user")

Also(result, touched) == [result EXCEPT !.touched = @ \cup touched]

\* Mutant of loadDefaults: a failed override load falls back to the other
\* locations.
loadDefaultsFallingBack(env, fsys) ==
    LET o == loadFromFileAt(fsys, "override")
        w == loadFromFileAt(fsys, "workload")
    IN  IF env /\ o.ok
        THEN o
        ELSE IF fsys["workload"].state # "missing" /\ w.ok
             THEN Also(w, IF env THEN {"override"} ELSE {})
             ELSE Also(loadUserToken(fsys),
                       {"workload"} \cup (IF env THEN {"override"} ELSE {}))

\* token.ts:120-137  loadDefaults: the override alone when it is set;
\* otherwise the workload file when fs.access finds it and loading it
\* succeeds (the try covers the load too), else the user file
loadDefaults(env, fsys) ==
    IF env
    THEN loadFromFileAt(fsys, "override")
    ELSE LET w == loadFromFileAt(fsys, "workload")
         IN  IF fsys["workload"].state # "missing" /\ w.ok
             THEN w
             ELSE Also(loadUserToken(fsys), {"workload"})

\* Mutant of loadWorkloadTokenAt: a file without a bearer credential is
\* accepted as it was loaded.
loadWorkloadTokenAtUnvalidated(env, fsys) ==
    loadFromFileAt(fsys, IF env THEN "override" ELSE "workload")

\* token.ts:152-160  loadWorkloadToken: the override or the workload file;
\* a bearer credential is required and is all that is kept
loadWorkloadTokenAt(env, fsys) ==
    LET tokenPath == IF env THEN "override" ELSE "workload"
        loaded == loadFromFileAt(fsys, tokenPath)
    IN  IF ~loaded.ok
        THEN loaded
        ELSE IF ~Truthy(loaded.source.bearerToken)
             THEN Failed(NoBearerError, {tokenPath})
             ELSE Loaded(loadWorkloadToken(fsys[tokenPath].json), {tokenPath})

Loaders == {"loadDefaults", "loadUserToken", "loadWorkloadToken"}

RunLoader(loader, env, fsys) ==
    CASE loader = "loadDefaults"  -> loadDefaults(env, fsys)
      [] loader = "loadUserToken" -> loadUserToken(fsys)
      [] OTHER                    -> loadWorkloadTokenAt(env, fsys)

NotLoaded == [loader |-> "none", result |-> Failed("", {})]

\* ------------------------------------------- the cache path and the override
\* token.ts:252, 284  path.join(this.cacheDir, "token.cache")
CacheName == "token.cache"

\* token.ts:122-123, 153-154  NSC_TOKEN_FILE is a path of the user's choice:
\* the file it names is called token.json or, as the cache file, token.cache
TokenFileNames == {"token.json", CacheName}

\* token.ts:254-255  a credential file read as the cache: its JSON text, as
\* extractClaims sees it.  claims.ts:14-25: the text starts with "{", so no
\* prefix is stripped, and its dots are those of the credentials in it (a
\* bearer credential of the model has none); with a session credential
\* h.p.s the text has three segments, the middle one p, and the claims are
\* the session credential's.  json is the object the text stands for.
TextOf(json) ==
    LET claims == extractClaims(json.session_token)
    IN  [ prefix |-> "", kind |-> IF claims.isNull THEN "opaque" ELSE "jwt",
          tenant_id |-> claims.tenant_id, exp |-> claims.exp, jti |-> 0,
          json |-> json ]

\* token.ts:254  what readFile(cachePath, "utf8") finds when cachePath is
\* the path of a credential file
TextFile(f) ==
    IF f.state \in {"missing", "unreadable"} THEN NoFile ELSE File(TextOf(f.json))

\* token.ts:78, 252, 286  cachePath is token.cache in path.dirname(tokenPath):
\* when the source was loaded from the override and that file is itself
\* called token.cache, cachePath is tokenPath, and writeFile leaves the
\* credential string, which is no JSON, in the credential file
FilesAfterWrite(fsys, name, loaded) ==
    IF name = CacheName /\ loaded.ok /\ "override" \in loaded.touched
    THEN [fsys EXCEPT !["override"] = FileInvalid]
    ELSE fsys

\* ------------------------------------------- the claims parser on strings
\* extractClaims as it works on the characters of a credential: a string is
\* the sequence of its character codes (ASCII).  extractClaims above is this
\* function seen through what issueToken uses of it: kind "jwt" stands for
\* the strings it returns a truthy value for.
\* claims.ts:37  the recognised prefixes, in the order they are tried:
\* "st_", "nsct_", "nscw_", "oidc_", "cognito_"
prefixes ==
    << <<115, 116, 95>>, <<110, 115, 99, 116, 95>>, <<110, 115, 99, 119, 95>>,
       <<111, 105, 100, 99, 95>>, <<99, 111, 103, 110, 105, 116, 111, 95>> >>

\* String.prototype.startsWith
startsWith(s, p) == Len(s) >= Len(p) /\ SubSeq(s, 1, Len(p)) = p

\* String.prototype.substring(n)
substring(s, n) == SubSeq(s, n + 1, Len(s))

\* claims.ts:36-46  stripTokenPrefix on a string: the first prefix of the
\* list the token starts with is removed, once
stripTokenPrefixText(token) ==
    LET matching == { i \in DOMAIN prefixes : startsWith(token, prefixes[i]) }
    IN  IF matching = {}
        THEN token
        ELSE LET first == CHOOSE i \in matching : \A j \in matching : i <= j
             IN  substring(token, Len(prefixes[first]))

\* String.prototype.split("."): the segments between the dots
RECURSIVE split(_)
split(s) ==
    LET dots == { i \in DOMAIN s : s[i] = 46 }
    IN  IF dots = {}
        THEN << s >>
        ELSE LET d == CHOOSE i \in dots : \A j \in dots : i <= j
             IN  << SubSeq(s, 1, d - 1) >> \o split(SubSeq(s, d + 1, Len(s)))

\* Mutant of unbase64: only the standard alphabet is accepted.
unbase64Standard(c) ==
    IF c >= 65 /\ c <= 90 THEN c - 65
    ELSE IF c >= 97 /\ c <= 122 THEN c - 71
    ELSE IF c >= 48 /\ c <= 57 THEN c + 4
    ELSE IF c = 43 THEN 62
    ELSE IF c = 47 THEN 63
    ELSE 64

\* The value of a character in the base64 alphabets (the URL-safe and the
\* standard one are both accepted when decoding); 64 for any other character.
unbase64(c) ==
    IF c >= 65 /\ c <= 90 THEN c - 65
    ELSE IF c >= 97 /\ c <= 122 THEN c - 71
    ELSE IF c >= 48 /\ c <= 57 THEN c + 4
    ELSE IF c = 45 \/ c = 43 THEN 62
    ELSE IF c = 95 \/ c = 47 THEN 63
    ELSE 64

\* claims.ts:24  Buffer.from(payload, "base64url"): decoding ends at the
\* first "=", characters outside the alphabets are skipped, and every 4
\* characters give 3 bytes (2 give 1 byte, 3 give 2 bytes at the end)
base64urlDecode(s) ==
    LET pads == { i \in DOMAIN s : s[i] = 61 }
        upTo == IF pads = {} THEN s
                ELSE SubSeq(s, 1, (CHOOSE i \in pads : \A j \in pads : i <= j) - 1)
        legal(c) == unbase64(c) < 64
        chars == SelectSeq(upTo, legal)
        sx == [i \in DOMAIN chars |-> unbase64(chars[i])]
        byte(k) ==
            LET o == 8 * (k - 1)
                i == (o \div 6) + 1
                r == o % 6
            IN  IF r = 0 THEN sx[i] * 4 + (sx[i + 1] \div 16)
                ELSE IF r = 2 THEN (sx[i] % 16) * 16 + (sx[i + 1] \div 4)
                ELSE (sx[i] % 4) * 64 + sx[i + 1]
    IN  [k \in 1..((Len(sx) * 6) \div 8) |-> byte(k)]

\* claims.ts:24  Buffer.toString("utf8") for bytes that are ASCII or stand
\* alone: a byte above 127 that is no part of a UTF-8 sequence becomes
\* U+FFFD
utf8ToString(bytes) == [i \in DOMAIN bytes |-> IF bytes[i] < 128 THEN bytes[i] ELSE 65533]

\* ------------------------------------------------------------ JSON values
\* A JavaScript value as JSON.parse produces it:
\*   t  "object", "array", "string", "number", "true", "false", "null",
\*      and "undefined" for a property that is absent
\*   n  the number;  s  the string;  a  the elements of the array
\*   m  the properties of the object, a function from names to values
JValue(t, n, s, m, a) == [t |-> t, n |-> n, s |-> s, m |-> m, a |-> a]
JNull == JValue("null", 0, <<>>, <<>>, <<>>)
JUndefined == JValue("undefined", 0, <<>>, <<>>, <<>>)
JTrue == JValue("true", 0, <<>>, <<>>, <<>>)
JFalse == JValue("false", 0, <<>>, <<>>, <<>>)
JNumber(n) == JValue("number", n, <<>>, <<>>, <<>>)
JString(s) == JValue("string", 0, s, <<>>, <<>>)
JArray(a) == JValue("array", 0, <<>>, <<>>, a)
JObject(m) == JValue("object", 0, <<>>, m, <<>>)

\* obj[name] = value: a later property of the same name replaces the earlier
SetProperty(m, name, value) ==
    [k \in (DOMAIN m) \cup {name} |-> IF k = name THEN value ELSE m[k]]

\* claims.exp, claims.tenant_id: undefined when the value has no such
\* property (a number, a boolean, a string and an array have none of these)
GetProperty(v, name) ==
    IF v.t = "object" /\ name \in DOMAIN v.m THEN v.m[name] ELSE JUndefined

\* if (value), !value, value || other
Falsy(v) ==
    \/ v.t \in {"undefined", "null", "false"}
    \/ (v.t = "number" /\ v.n = 0)
    \/ (v.t = "string" /\ v.s = <<>>)

\* ------------------------------------------------------------- JSON.parse
\* The result of parsing from a position: whether a value was read, the
\* value, and the position after it.
Parsed(v, pos) == [ok |-> TRUE, v |-> v, pos |-> pos]
SyntaxError == [ok |-> FALSE, v |-> JUndefined, pos |-> 0]

At(t, i) == IF i <= Len(t) THEN t[i] ELSE 0 - 1

IsWs(c) == c \in {32, 9, 10, 13}
IsDigit(c) == c >= 48 /\ c <= 57

RECURSIVE SkipWs(_, _)
SkipWs(t, i) == IF IsWs(At(t, i)) THEN SkipWs(t, i + 1) ELSE i

\* The escapes of one character: \" \\ \/ \b \f \n \r \t
Unescape(c) ==
    CASE c = 34 -> 34 [] c = 92 -> 92 [] c = 47 -> 47 [] c = 98 -> 8
      [] c = 102 -> 12 [] c = 110 -> 10 [] c = 114 -> 13 [] c = 116 -> 9
      [] OTHER -> 0 - 1

\* A string from the character after its opening quote (\u escapes are not
\* among the inputs and not read here).
RECURSIVE ParseChars(_, _, _)
ParseChars(t, i, acc) ==
    LET c == At(t, i)
    IN  IF c = 34 THEN Parsed(JString(acc), i + 1)
        ELSE IF c < 32 THEN SyntaxError
        ELSE IF c = 92
             THEN IF Unescape(At(t, i + 1)) < 0 THEN SyntaxError
                  ELSE ParseChars(t, i + 2, Append(acc, Unescape(At(t, i + 1))))
             ELSE ParseChars(t, i + 1, Append(acc, c))

RECURSIVE ParseDigits(_, _, _)
ParseDigits(t, i, acc) ==
    IF IsDigit(At(t, i)) THEN ParseDigits(t, i + 1, acc * 10 + (At(t, i) - 48))
    ELSE Parsed(JNumber(acc), i)

\* An integer: an optional "-", then "0" or digits that do not start with
\* "0" (fractions and exponents are not among the inputs and not read here).
ParseNumber(t, i) ==
    LET neg == At(t, i) = 45
        j == IF neg THEN i + 1 ELSE i
    IN  IF ~IsDigit(At(t, j)) THEN SyntaxError
        ELSE LET r == IF At(t, j) = 48 THEN Parsed(JNumber(0), j + 1)
                      ELSE ParseDigits(t, j, 0)
             IN  IF neg THEN Parsed(JNumber(0 - r.v.n), r.pos) ELSE r

ParseLiteral(t, i, word, v) ==
    IF i + Len(word) - 1 <= Len(t) /\ SubSeq(t, i, i + Len(word) - 1) = word
    THEN Parsed(v, i + Len(word)) ELSE SyntaxError

RECURSIVE ParseValue(_, _)
RECURSIVE ParseElements(_, _, _)
RECURSIVE ParseMembers(_, _, _)

\* The elements of an array from the first one on.
ParseElements(t, i, acc) ==
    LET e == ParseValue(t, SkipWs(t, i))
    IN  IF ~e.ok THEN SyntaxError
        ELSE LET j == SkipWs(t, e.pos)
             IN  IF At(t, j) = 44 THEN ParseElements(t, j + 1, Append(acc, e.v))
                 ELSE IF At(t, j) = 93 THEN Parsed(JArray(Append(acc, e.v)), j + 1)
                 ELSE SyntaxError

\* The members of an object from the first one on.
ParseMembers(t, i, acc) ==
    LET k == SkipWs(t, i)
    IN  IF At(t, k) # 34 THEN SyntaxError
        ELSE LET name == ParseChars(t, k + 1, <<>>)
             IN  IF ~name.ok THEN SyntaxError
                 ELSE LET c == SkipWs(t, name.pos)
                      IN  IF At(t, c) # 58 THEN SyntaxError
                          ELSE LET e == ParseValue(t, SkipWs(t, c + 1))
                               IN  IF ~e.ok THEN SyntaxError
                                   ELSE LET j == SkipWs(t, e.pos)
                                            m == SetProperty(acc, name.v.s, e.v)
                                        IN  IF At(t, j) = 44 THEN ParseMembers(t, j + 1, m)
                                            ELSE IF At(t, j) = 125 THEN Parsed(JObject(m), j + 1)
                                            ELSE SyntaxError

ParseValue(t, i) ==
    LET c == At(t, i)
    IN  CASE c = 123 -> IF At(t, SkipWs(t, i + 1)) = 125
                        THEN Parsed(JObject(<<>>), SkipWs(t, i + 1) + 1)
                        ELSE ParseMembers(t, i + 1, <<>>)
          [] c = 91  -> IF At(t, SkipWs(t, i + 1)) = 93
                        THEN Parsed(JArray(<<>>), SkipWs(t, i + 1) + 1)
                        ELSE ParseElements(t, i + 1, <<>>)
          [] c = 34  -> ParseChars(t, i + 1, <<>>)
          [] c = 45 \/ IsDigit(c) -> ParseNumber(t, i)
          [] c = 116 -> ParseLiteral(t, i, <<116, 114, 117, 101>>, JTrue)
          [] c = 102 -> ParseLiteral(t, i, <<102, 97, 108, 115, 101>>, JFalse)
          [] c = 110 -> ParseLiteral(t, i, <<110, 117, 108, 108>>, JNull)
          [] OTHER   -> SyntaxError

\* JSON.parse(text): one value with white space around it and nothing else;
\* anything else throws SyntaxError
JSONparse(text) ==
    LET r == ParseValue(text, SkipWs(text, 1))
    IN  IF r.ok /\ SkipWs(text, r.pos) = Len(text) + 1 THEN r ELSE SyntaxError

\* claims.ts:11-31  extractClaims on a string: null unless the token without
\* its prefix has three segments; the second segment is decoded and parsed,
\* and what JSON.parse returns is returned as it is; null when it throws
extractClaimsText(token) ==
    LET cleanToken == stripTokenPrefixText(token)
        parts == split(cleanToken)
    IN  IF Len(parts) # 3
        THEN JNull
        ELSE LET payload == parts[2]
                 decoded == utf8ToString(base64urlDecode(payload))
                 claims == JSONparse(decoded)
             IN  IF claims.ok THEN claims.v ELSE JNull

\* ------------------------------------------------- building a credential
RECURSIVE Digits(_)
Digits(n) == IF n < 10 THEN <<48 + n>> ELSE Digits(n \div 10) \o <<48 + (n % 10)>>

\* An object given by its members in the order they are written:
\* <<name, value>> pairs, a value being a JValue or again such an object.
Members(ms) == [t |-> "members", ms |-> ms]

RECURSIVE stringify(_)
RECURSIVE stringifyMembers(_)
stringifyMembers(ms) ==
    IF ms = <<>> THEN <<>>
    ELSE <<34>> \o Head(ms)[1] \o <<34, 58>> \o stringify(Head(ms)[2])
         \o (IF Len(ms) > 1 THEN <<44>> ELSE <<>>) \o stringifyMembers(Tail(ms))

\* JSON.stringify of an object, a number or a string (of characters that
\* need no escape)
stringify(v) ==
    CASE v.t = "members" -> <<123>> \o stringifyMembers(v.ms) \o <<125>>
      [] v.t = "number"  -> IF v.n < 0 THEN <<45>> \o Digits(0 - v.n) ELSE Digits(v.n)
      [] v.t = "string"  -> <<34>> \o v.s \o <<34>>
      [] v.t = "true"    -> <<116, 114, 117, 101>>
      [] v.t = "false"   -> <<102, 97, 108, 115, 101>>
      [] OTHER           -> <<110, 117, 108, 108>>

\* The object itself: its properties by name.
RECURSIVE ObjectOf(_)
ObjectOf(v) ==
    IF v.t = "members"
    THEN JObject([name \in { v.ms[i][1] : i \in DOMAIN v.ms } |->
                    ObjectOf((v.ms[CHOOSE i \in DOMAIN v.ms : v.ms[i][1] = name])[2])])
    ELSE v

\* The URL-safe base64 alphabet: A-Z a-z 0-9 - _
base64urlChar(x) ==
    IF x < 26 THEN 65 + x
    ELSE IF x < 52 THEN 71 + x
    ELSE IF x < 62 THEN x - 4
    ELSE IF x = 62 THEN 45 ELSE 95

\* base64url without padding (RFC 4648, section 5): every 3 bytes give 4
\* characters, 1 byte at the end gives 2 and 2 bytes give 3
base64urlEncode(bytes) ==
    LET b(i) == IF i <= Len(bytes) THEN bytes[i] ELSE 0
        sextet(j) ==
            LET o == 6 * (j - 1)
                i == (o \div 8) + 1
                r == o % 8
            IN  IF r = 0 THEN b(i) \div 4
                ELSE IF r = 6 THEN (b(i) % 4) * 16 + (b(i + 1) \div 16)
                ELSE IF r = 4 THEN (b(i) % 16) * 4 + (b(i + 1) \div 64)
                ELSE b(i) % 64
    IN  [j \in 1..((Len(bytes) * 8 + 5) \div 6) |-> base64urlChar(sextet(j))]

\* The strings "exp", "tenant_id", "sub", "act".
ExpName == <<101, 120, 112>>
TenantIdName == <<116, 101, 110, 97, 110, 116, 95, 105, 100>>
SubName == <<115, 117, 98>>
ActName == <<97, 99, 116>>

\* claims.ts:51-63  isTokenExpired(claims, bufferMs) when Date.now() is
\* nowMs; NoBuffer is the argument left out (exp is a number when present)
DefaultBufferMs == 60000
NoBuffer == 0 - 1
Buffers == {NoBuffer, 0, 30 * 1000}

isTokenExpired(claimsObject, bufferArg, nowMs) ==
    LET bufferMs == IF bufferArg = NoBuffer THEN DefaultBufferMs ELSE bufferArg
        exp == GetProperty(claimsObject, ExpName)
        expirationMs == exp.n * 1000
    IN  IF Falsy(exp) THEN FALSE ELSE nowMs + bufferMs >= expirationMs

\* The claims objects credentials are built from: empty, with an exp of 0,
\* with exps at and just past the clock's start plus the default buffer,
\* with a tenant, and with strings and a nested object whose encodings use
\* "_" and "-".
ClaimsObjects ==
    { Members(<<>>),
      Members(<< <<ExpName, JNumber(0)>> >>),
      Members(<< <<ExpName, JNumber(StartSeconds + 60)>> >>),
      Members(<< <<TenantIdName, JString(<<65>>)>>, <<ExpName, JNumber(StartSeconds + 61)>> >>),
      Members(<< <<TenantIdName, JString(<<65>>)>> >>),
      Members(<< <<SubName, JString(<<63, 62, 126>>)>>,
                 <<ActName, Members(<< <<ExpName, JNumber(1)>> >>)>> >>),
      Members(<< <<SubName, JString(<<97, 63, 62, 126, 122>>)>>, <<ActName, JTrue>> >>) }

\* A string given to extractClaims and how it was made:
\*   "built"      prefix header "." base64url(JSON.stringify(J)) "." sig
\*   "segments"   not three segments
\*   "base64"     three segments, the second with a character that is no
\*                base64url character
\*   "json"       three segments, the second the encoding of text that is
\*                no JSON
\*   "nonobject"  three segments, the second the encoding of JSON text that
\*                is no object
Built(prefix, header, J, sig) ==
    [ text |-> prefix \o header \o <<46>> \o base64urlEncode(stringify(J)) \o <<46>> \o sig,
      kind |-> "built", J |-> J ]

Other(text, kind) == [text |-> text, kind |-> kind, J |-> Members(<<>>)]

\* "hdr" "." payload "." "sig"
Jwt(payload) == <<104, 100, 114, 46>> \o payload \o <<46, 115, 105, 103>>

\* No prefix and the recognised ones.
BuiltPrefixes == { <<>> } \cup { prefixes[i] : i \in DOMAIN prefixes }
\* "", "hdr", "st_x"
Headers == { <<>>, <<104, 100, 114>>, <<115, 116, 95, 120>> }
\* "sig", ""
Signatures == { <<115, 105, 103>>, <<>> }

\* {"exp":1060} and its encoding
SomeObjectText == stringify(Members(<< <<ExpName, JNumber(StartSeconds + 60)>> >>))
SomePayload == base64urlEncode(SomeObjectText)

CredentialStrings ==
    { Built(p, h, J, s) : p \in BuiltPrefixes, h \in Headers, J \in ClaimsObjects,
                          s \in Signatures }
    \cup { Other(t, "segments") :
              t \in { <<>>, <<97, 98, 99>>,
                      <<104, 100, 114, 46>> \o SomePayload,
                      prefixes[1] \o <<104, 100, 114, 46>> \o SomePayload,
                      Jwt(SomePayload) \o <<46, 120>>,
                      SomeObjectText } }
    \* the payload with a space in it, with "!" in it, and "!!!!"
    \cup { Other(Jwt(t), "base64") :
              t \in { SubSeq(SomePayload, 1, 4) \o <<32>> \o SubSeq(SomePayload, 5, Len(SomePayload)),
                      SubSeq(SomePayload, 1, 6) \o <<33>> \o SubSeq(SomePayload, 7, Len(SomePayload)),
                      <<33, 33, 33, 33>> } }
    \* {"exp":1060 without its brace, "not json", {"exp":1060,} and nothing
    \cup { Other(Jwt(base64urlEncode(t)), "json") :
              t \in { SubSeq(SomeObjectText, 1, Len(SomeObjectText) - 1),
                      <<110, 111, 116, 32, 106, 115, 111, 110>>,
                      SubSeq(SomeObjectText, 1, Len(SomeObjectText) - 1) \o <<44, 125>>,
                      <<>> } }
    \* 123, 0, null, "A", [1], true
    \cup { Other(Jwt(base64urlEncode(t)), "nonobject") :
              t \in { <<49, 50, 51>>, <<48>>, <<110, 117, 108, 108>>, <<34, 65, 34>>,
                      <<91, 49, 93>>, <<116, 114, 117, 101>> } }

NoCredential == Other(<<>>, "none")
NotExtracted == [called |-> FALSE, result |-> JUndefined]
Extracted(result) == [called |-> TRUE, result |-> result]
NotAsked == [called |-> FALSE, bufferArg |-> NoBuffer, at |-> 0, value |-> FALSE]
Asked(bufferArg, at, value) ==
    [called |-> TRUE, bufferArg |-> bufferArg, at |-> at, value |-> value]

\* ------------------------------------------------- token.cache permissions
\* The permission bits of token.cache: owner-only read/write, or also
\* readable by group and others; NoMode while there is no file.
OwnerOnly == "0600"
WorldReadable == "0644"
NoMode == "none"

\* token.ts:286  fs.writeFile(cachePath, newToken, { mode: 0o600 }): the
\* mode is given to open(2) and sets the bits of a file that is created; an
\* existing file is truncated and keeps its bits
ModeAfterWrite(file, mode) == IF file.exists THEN mode ELSE OwnerOnly

\* ------------------------------------------------------ outbound requests
\* api/index.ts:27-36  the request an interceptor is handling:
\*   pc  "none", "awaiting" (source.issueToken), "forwarded" (next(req) was
\*       called), "failed" (issueToken rejected; the interceptor rejects)
\*   arg                  the minDuration given to bearerAuthInterceptor
\*   minDuration, force   what issueToken was called with
\*   nIssueToken          the number of issueToken calls made for it
\*   header               the Authorization header of the request
NoHeader == [scheme |-> "", credentials |-> Undefined]

\* api/index.ts:33  `Bearer ${token}`
BearerHeader(token) == [scheme |-> "Bearer ", credentials |-> token]

\* The minDuration arguments given to bearerAuthInterceptor: left out, 0 and
\* 30 minutes.
NoMinDuration == 0 - 1

NoRequest ==
    [ pc |-> "none", arg |-> NoMinDuration, minDuration |-> 0, force |-> FALSE,
      nIssueToken |-> 0, token |-> Undefined, header |-> NoHeader, error |-> "" ]
InterceptorArgs == {NoMinDuration, 0, 30 * 60 * 1000}

\* Mutant of InterceptorCall: the refresh is forced.
InterceptorCallForced(minDurationArg) ==
    [ minDuration |-> IF minDurationArg = NoMinDuration THEN 5 * 60 * 1000 ELSE minDurationArg,
      force |-> TRUE ]

\* api/index.ts:29, 32  source.issueToken(minDuration), minDuration = 5 min
\* when left out; force is not passed (token.ts:208: it defaults to false)
InterceptorCall(minDurationArg) ==
    [ minDuration |-> IF minDurationArg = NoMinDuration THEN 5 * 60 * 1000 ELSE minDurationArg,
      force |-> FALSE ]

\* ------------------------------------------------------------------ state
VARIABLES
    now,          \* Date.now()
    nscDebug,     \* the flags of process.env.NSC_DEBUG
    ctor,         \* how the source was constructed
    source,       \* the LoadedToken
    cache,        \* the file token.cache in the source's cacheDir
    calls,        \* per slot: the position and locals of an issueToken call
    started,      \* number of issueToken calls made so far
    issuerCalls,  \* number of issueTenantTokenFromSession requests sent so far
    minted,       \* number of credentials the issuer has minted so far
    tokenFileEnv, \* whether process.env.NSC_TOKEN_FILE is set (non-empty)
    tokenFileName, \* the name of the file NSC_TOKEN_FILE points to
    files,        \* the credential files, by location
    load,         \* the loader that was called and what it came to
    credential,   \* the string extractClaims is called with
    claims,       \* what extractClaims returned
    expired,      \* what isTokenExpired returned, and for which arguments
    cacheMode,    \* the permission bits of token.cache
    requests      \* per slot: the outbound request the interceptor handles

loadVars == <<tokenFileEnv, tokenFileName, files, load>>
parserVars == <<credential, claims, expired>>
restVars == <<loadVars, parserVars, cacheMode, requests>>

vars == <<now, nscDebug, ctor, source, cache, calls, started, issuerCalls, minted,
          tokenFileEnv, tokenFileName, files, load, credential, claims, expired,
          cacheMode, requests>>

\* A call's record.  pc is where the call is suspended:
\*   "idle"   no call in this slot
\*   "read"   awaiting fs.readFile(cachePath)        (token.ts:254)
\*   "issue"  awaiting issueTenantTokenFromSession   (token.ts:231)
\*   "write"  awaiting fs.writeFile(cachePath, ...)  (token.ts:286)
\*   "done"   resolved with result;  "failed"  rejected with error
\* The other fields are the call's arguments and locals, and a record of
\* what it did (requests sent, cache accesses, times); cacheBefore is
\* token.cache as it was when the call was made, issuerError the error the
\* issuer's request was rejected with, authorization the Authorization
\* header of the request it sent to the issuer.
IdleCall ==
    [ pc |-> "idle", minDuration |-> 0, force |-> FALSE, forceRefresh |-> FALSE,
      cacheBefore |-> NoFile,
      cacheRead |-> "none", seen |-> Undefined, checkedAt |-> 0,
      requested |-> 0 - 1, nIssuer |-> 0, issuedAt |-> 0, newToken |-> Undefined,
      issuerError |-> "", authorization |-> NoHeader,
      cacheWrite |-> "none", written |-> NoFile,
      result |-> Undefined, error |-> "", settledAt |-> 0 ]

Init ==
    /\ now = NowStart
    /\ nscDebug \in DebugSettings
    /\ \E c \in Constructions : ctor = c[1] /\ source = c[2]
    /\ cache \in InitialCaches
    /\ calls = [s \in Slots |-> IdleCall]
    /\ started = 0
    /\ issuerCalls = 0
    /\ minted = 0
    \* the source is already constructed: what the loaders read plays no
    \* part from here on (SpecLoad starts before the loader runs)
    /\ tokenFileEnv = FALSE
    /\ tokenFileName = "token.json"
    /\ files = [p \in Paths |-> FileMissing]
    /\ load = NotLoaded
    \* no string is being parsed and no request intercepted
    /\ credential = NoCredential
    /\ claims = NotExtracted
    /\ expired = NotAsked
    /\ requests = [s \in Slots |-> NoRequest]
    \* a token.cache that is there was created by this code
    /\ cacheMode = IF cache.exists THEN OwnerOnly ELSE NoMode

\* ---------------------------------------------------------------- actions
\* token.ts:228-235  issueNewToken(durationMs) up to its await: the request
\* is sent with the duration in whole seconds
SendIssue(call, durationMs) ==
    [call EXCEPT !.pc = "issue",
                 !.requested = DurationSeconds(durationMs),
                 !.nIssuer = @ + 1]

\* token.ts:195-200  the interceptor of the sessions client's transport:
\* if (this.sessionToken) the request's Authorization header is set to
\* `Bearer ${this.sessionToken}`
SessionsClientHeader(src) ==
    IF Truthy(src.sessionToken) THEN BearerHeader(src.sessionToken) ELSE NoHeader

\* token.ts:188-206, 229-231  every request of issueNewToken goes out
\* through the sessions client, so through its interceptor: a step that
\* sent a request (nIssuer went up) sent it with that header
ViaSessionsClient(before, after, src) ==
    IF after.nIssuer > before.nIssuer
    THEN [after EXCEPT !.authorization = SessionsClientHeader(src)]
    ELSE after

Resolve(call, token, t) ==
    [call EXCEPT !.pc = "done", !.result = token, !.settledAt = t]

Reject(call, err, t) ==
    [call EXCEPT !.pc = "failed", !.error = err, !.settledAt = t]

NoCredentialError == "No bearer token or session token available"
ClaimsError == "Failed to extract claims from session token"

\* token.ts:220-254  issueFromSession(minDuration, force) up to its first
\* await: the forced branch comes before the session claims are decoded
IssueFromSessionEntry(call, src, t) ==
    IF call.forceRefresh
    THEN SendIssue(call, ForcedDuration(call.minDuration))
    ELSE IF extractClaims(src.sessionToken).isNull
         THEN Reject(call, ClaimsError, t)
         ELSE IF src.cacheDir
              THEN [call EXCEPT !.pc = "read"]
              ELSE SendIssue(call, RequestDuration(call.minDuration))

\* Mutant of WithoutSession: the bearer field is returned unchecked.
WithoutSessionUnchecked(call, src, t) == Resolve(call, src.bearerToken, t)

\* token.ts:213-217  issueToken when there is no session credential
WithoutSession(call, src, t) ==
    IF Truthy(src.bearerToken)
    THEN Resolve(call, src.bearerToken, t)
    ELSE Reject(call, NoCredentialError, t)

\* Mutant of IssueTokenEntry: the bearer credential takes precedence.
IssueTokenEntryBearerFirst(call, src, flags, t) ==
    IF Truthy(src.bearerToken)
    THEN Resolve(call, src.bearerToken, t)
    ELSE IF Truthy(src.sessionToken)
         THEN IssueFromSessionEntry(call, src, t)
         ELSE Reject(call, NoCredentialError, t)

\* token.ts:208-254  issueToken(minDuration, force) up to its first await
IssueTokenEntry(call, src, flags, t) ==
    IF Truthy(src.sessionToken)
    THEN IssueFromSessionEntry(call, src, t)
    ELSE WithoutSession(call, src, t)

Start(s, minDuration, force) ==
    /\ started < MaxCalls
    /\ calls[s].pc = "idle"
    /\ \A o \in Slots : o < s => calls[o].pc # "idle"
    /\ LET call == [IdleCall EXCEPT !.minDuration = minDuration, !.force = force,
                                    !.forceRefresh = EffectiveForce(force, nscDebug),
                                    !.cacheBefore = cache]
           next == ViaSessionsClient(call, IssueTokenEntry(call, source, nscDebug, now),
                                     source)
       IN  /\ calls' = [calls EXCEPT ![s] = next]
           /\ issuerCalls' = issuerCalls + next.nIssuer
    /\ started' = started + 1
    /\ UNCHANGED <<now, nscDebug, ctor, source, cache, minted>>
    /\ UNCHANGED <<loadVars, parserVars, cacheMode>>

\* token.ts:254-265  readFile resolved: the cached credential is returned
\* when usable, otherwise a new one is requested (token.ts:271-280)
AfterCacheRead(call, contents, sessionToken, t) ==
    LET read == [call EXCEPT !.cacheRead = "ok", !.seen = contents, !.checkedAt = t]
    IN  IF CacheUsable(extractClaims(contents), extractClaims(sessionToken), t, call.minDuration)
        THEN Resolve(read, contents, t)
        ELSE SendIssue(read, RequestDuration(call.minDuration))

ReadCacheOk(s) ==
    /\ calls[s].pc = "read"
    /\ cache.exists
    /\ LET next == ViaSessionsClient(calls[s],
                     AfterCacheRead(calls[s], cache.content, source.sessionToken, now),
                     source)
       IN  /\ calls' = [calls EXCEPT ![s] = next]
           /\ issuerCalls' = issuerCalls + (next.nIssuer - calls[s].nIssuer)
    /\ UNCHANGED <<now, nscDebug, ctor, source, cache, started, minted>>
    /\ UNCHANGED restVars

\* Mutant of AfterCacheReadError: the read error is rethrown.
AfterCacheReadErrorThrown(call, t) ==
    Reject([call EXCEPT !.cacheRead = "error", !.checkedAt = t], "ENOENT", t)

\* token.ts:266-280  the catch around readFile: continue to issue
AfterCacheReadError(call, t) ==
    SendIssue([call EXCEPT !.cacheRead = "error", !.checkedAt = t],
              RequestDuration(call.minDuration))

\* token.ts:254, 266  readFile rejected: the file (or its directory) does
\* not exist, or it exists and cannot be read
ReadCacheErr(s) ==
    /\ calls[s].pc = "read"
    /\ LET next == ViaSessionsClient(calls[s], AfterCacheReadError(calls[s], now), source)
       IN  /\ calls' = [calls EXCEPT ![s] = next]
           /\ issuerCalls' = issuerCalls + (next.nIssuer - calls[s].nIssuer)
    /\ UNCHANGED <<now, nscDebug, ctor, source, cache, started, minted>>
    /\ UNCHANGED restVars

\* Mutant of AfterIssue: the credential is returned without being written
\* to the cache.
AfterIssueWithoutWrite(call, token, cacheDir, t) ==
    Resolve([call EXCEPT !.newToken = token, !.issuedAt = t], token, t)

\* Mutant of AfterIssue: the cache is read again before it is written.
AfterIssueRereadingCache(call, token, cacheDir, t) ==
    LET got == [call EXCEPT !.newToken = token, !.issuedAt = t]
    IN  IF call.forceRefresh
        THEN Resolve(got, token, t)
        ELSE IF cacheDir
             THEN [got EXCEPT !.pc = "read"]
             ELSE Resolve(got, token, t)

\* token.ts:234, 241-243 and 280-286  the issuer answered: a forced call
\* returns the credential, the others go on to write it to the cache
AfterIssue(call, token, cacheDir, t) ==
    LET got == [call EXCEPT !.newToken = token, !.issuedAt = t]
    IN  IF call.forceRefresh
        THEN Resolve(got, token, t)
        ELSE IF cacheDir
             THEN [got EXCEPT !.pc = "write"]
             ELSE Resolve(got, token, t)

IssuerRespond(s) ==
    /\ calls[s].pc = "issue"
    /\ ~extractClaims(source.sessionToken).isNull
    /\ calls' = [calls EXCEPT ![s] =
          AfterIssue(@, Mint(@.authorization.credentials, @.requested, now, minted + 1),
                     source.cacheDir, now)]
    /\ minted' = minted + 1
    /\ UNCHANGED <<now, nscDebug, ctor, source, cache, started, issuerCalls>>
    /\ UNCHANGED restVars

\* The errors the issuer's request can be rejected with.
IssuerErrors == {"unavailable", "unauthenticated"}

\* Mutant of AfterIssueFailure: the request is sent once more.
AfterIssueFailureRetried(call, err, t) ==
    IF call.nIssuer < 2
    THEN [call EXCEPT !.nIssuer = @ + 1]
    ELSE Reject([call EXCEPT !.issuerError = err], err, t)

\* token.ts:231, 241, 280  no catch around issueNewToken: the rejection of
\* the request is the rejection of issueToken
AfterIssueFailure(call, err, t) ==
    Reject([call EXCEPT !.issuerError = err], err, t)

\* token.ts:231  the request failed
IssuerFail(s, err) ==
    /\ calls[s].pc = "issue"
    /\ LET next == ViaSessionsClient(calls[s], AfterIssueFailure(calls[s], err, now), source)
       IN  /\ calls' = [calls EXCEPT ![s] = next]
           /\ issuerCalls' = issuerCalls + (next.nIssuer - calls[s].nIssuer)
    /\ UNCHANGED <<now, nscDebug, ctor, source, cache, started, minted>>
    /\ UNCHANGED restVars

\* Mutant of WrittenFile: a JSON record around the credential is written,
\* which is no credential string itself.
WrittenFileAsRecord(token) == File(Tok("", "opaque", NoTenant, NoExp, token.jti))

\* token.ts:286  what writeFile leaves in token.cache
WrittenFile(token) == File(token)

\* token.ts:283-300  writeFile resolved
WriteCacheOk(s) ==
    /\ calls[s].pc = "write"
    /\ cache' = WrittenFile(calls[s].newToken)
    /\ cacheMode' = ModeAfterWrite(cache, cacheMode)
    /\ calls' = [calls EXCEPT ![s] =
          Resolve([@ EXCEPT !.cacheWrite = "ok", !.written = cache'], @.newToken, now)]
    /\ files' = FilesAfterWrite(files, tokenFileName, load.result)
    /\ UNCHANGED <<now, nscDebug, ctor, source, started, issuerCalls, minted>>
    /\ UNCHANGED <<tokenFileEnv, tokenFileName, load, parserVars, requests>>

\* Mutant of AfterCacheWriteError: the write error is rethrown.
AfterCacheWriteErrorThrown(call, t) ==
    Reject([call EXCEPT !.cacheWrite = "error"], "EACCES", t)

\* token.ts:287-300  the catch around writeFile: the error is ignored
AfterCacheWriteError(call, t) ==
    Resolve([call EXCEPT !.cacheWrite = "error"], call.newToken, t)

\* token.ts:286-287  writeFile rejected (the location is not writable):
\* token.cache is as it was
WriteCacheErr(s) ==
    /\ calls[s].pc = "write"
    /\ calls' = [calls EXCEPT ![s] = AfterCacheWriteError(@, now)]
    /\ UNCHANGED <<now, nscDebug, ctor, source, cache, started, issuerCalls, minted>>
    /\ UNCHANGED restVars

\* The caller consumes the settled promise; the slot is free again.
Return(s) ==
    /\ calls[s].pc \in {"done", "failed"}
    /\ calls' = [calls EXCEPT ![s] = IdleCall]
    /\ UNCHANGED <<now, nscDebug, ctor, source, cache, started, issuerCalls, minted>>
    /\ UNCHANGED restVars

\* Time passes.
Tick ==
    /\ now < NowStart + MaxTicks * TickMs
    /\ now' = now + TickMs
    /\ UNCHANGED <<nscDebug, ctor, source, cache, calls, started, issuerCalls, minted>>
    /\ UNCHANGED restVars

\* Calls made one after the other: each is awaited before the next.
StartAwaited(s, minDuration, force) ==
    /\ \A o \in Slots : calls[o].pc = "idle"
    /\ Start(s, minDuration, force)
    /\ UNCHANGED requests

Next ==
    \/ \E s \in Slots, d \in MinDurations, f \in BOOLEAN : StartAwaited(s, d, f)
    \/ \E s \in Slots : ReadCacheOk(s)
    \/ \E s \in Slots : ReadCacheErr(s)
    \/ \E s \in Slots : IssuerRespond(s)
    \/ \E s \in Slots, e \in IssuerErrors : IssuerFail(s, e)
    \/ \E s \in Slots : WriteCacheOk(s)
    \/ \E s \in Slots : WriteCacheErr(s)
    \/ \E s \in Slots : Return(s)
    \/ Tick

Spec == Init /\ [][Next]_vars

\* ------------------------------------------------- loading, then issuing
\* Before any loader has run: the credential files and NSC_TOKEN_FILE are
\* what the environment made them (the override location matters only when
\* NSC_TOKEN_FILE is set).
InitLoad ==
    /\ now = NowStart
    /\ nscDebug = {}
    /\ ctor = "none"
    /\ source = NoSource
    /\ calls = [s \in Slots |-> IdleCall]
    /\ started = 0
    /\ issuerCalls = 0
    /\ minted = 0
    /\ tokenFileEnv \in BOOLEAN
    /\ tokenFileName \in TokenFileNames
    /\ ~tokenFileEnv => tokenFileName = "token.json"
    /\ files \in [Paths -> FileStates]
    /\ ~tokenFileEnv => files["override"] = FileMissing
    \* token.cache beside the credential file: absent or written earlier; when
    \* the override is itself called token.cache, it is that file
    /\ cache \in (IF tokenFileName = CacheName
                  THEN {TextFile(files["override"])}
                  ELSE {NoFile, File(Tok("nsct_", "jwt", "A", StartSeconds + 8000, 0))})
    /\ load = NotLoaded
    /\ credential = NoCredential
    /\ claims = NotExtracted
    /\ expired = NotAsked
    /\ requests = [s \in Slots |-> NoRequest]
    /\ cacheMode = IF cache.exists THEN OwnerOnly ELSE NoMode

\* One of the loaders is awaited; the source it resolves with is the one
\* issueToken is then called on.
Load(loader) ==
    /\ load.loader = "none"
    /\ LET r == RunLoader(loader, tokenFileEnv, files)
       IN  /\ load' = [loader |-> loader, result |-> r]
           /\ source' = r.source
           /\ ctor' = IF ~r.ok THEN "none"
                      ELSE IF loader = "loadWorkloadToken" THEN "loadWorkloadToken"
                      ELSE "loadFromFile"
    /\ UNCHANGED <<now, nscDebug, cache, calls, started, issuerCalls, minted,
                   tokenFileEnv, tokenFileName, files>>
    /\ UNCHANGED <<parserVars, cacheMode, requests>>

StartLoaded(s, minDuration, force) ==
    /\ load.result.ok
    /\ StartAwaited(s, minDuration, force)

NextLoad ==
    \/ \E l \in Loaders : Load(l)
    \/ \E s \in Slots, f \in BOOLEAN : StartLoaded(s, 5 * 60 * 1000, f)
    \/ \E s \in Slots : ReadCacheOk(s)
    \/ \E s \in Slots : ReadCacheErr(s)
    \/ \E s \in Slots : IssuerRespond(s)
    \/ \E s \in Slots, e \in IssuerErrors : IssuerFail(s, e)
    \/ \E s \in Slots : WriteCacheOk(s)
    \/ \E s \in Slots : WriteCacheErr(s)
    \/ \E s \in Slots : Return(s)

SpecLoad == InitLoad /\ [][NextLoad]_vars

\* ------------------------------------------------------ the claims parser
\* A credential string is given to extractClaims, and the claims object it
\* returns to isTokenExpired, at once or later.
InitClaims ==
    /\ now = NowStart
    /\ nscDebug = {}
    /\ ctor = "none"
    /\ source = NoSource
    /\ cache = NoFile
    /\ cacheMode = NoMode
    /\ calls = [s \in Slots |-> IdleCall]
    /\ started = 0
    /\ issuerCalls = 0
    /\ minted = 0
    /\ tokenFileEnv = FALSE
    /\ tokenFileName = "token.json"
    /\ files = [p \in Paths |-> FileMissing]
    /\ load = NotLoaded
    /\ requests = [s \in Slots |-> NoRequest]
    /\ credential \in CredentialStrings
    /\ claims = NotExtracted
    /\ expired = NotAsked

\* claims.ts:11  extractClaims(token)
ExtractClaims ==
    /\ ~claims.called
    /\ claims' = Extracted(extractClaimsText(credential.text))
    /\ UNCHANGED <<now, nscDebug, ctor, source, cache, calls, started, issuerCalls, minted>>
    /\ UNCHANGED <<loadVars, credential, expired, cacheMode, requests>>

\* claims.ts:51  isTokenExpired(claims, bufferMs) on a claims object
IsTokenExpired(bufferArg) ==
    /\ claims.called
    /\ claims.result.t = "object"
    /\ expired' = Asked(bufferArg, now, isTokenExpired(claims.result, bufferArg, now))
    /\ UNCHANGED <<now, nscDebug, ctor, source, cache, calls, started, issuerCalls, minted>>
    /\ UNCHANGED <<loadVars, credential, claims, cacheMode, requests>>

NextClaims ==
    \/ ExtractClaims
    \/ \E b \in Buffers : IsTokenExpired(b)
    \/ Tick

SpecClaims == InitClaims /\ [][NextClaims]_vars

\* ------------------------------------------------------- concurrent calls
\* issueToken calls that are not awaited one by one: a call is made while
\* another is suspended.  The source was loaded from a credential file with
\* a session credential; token.cache may be there already, with the
\* permissions its creator gave it.
InitConc ==
    /\ now = NowStart
    /\ nscDebug = {}
    /\ ctor = "loadFromFile"
    /\ source \in { loadFromFile(TokenJson(Undefined, SessionA)),
                    loadFromFile(TokenJson(StaticBearer, SessionMalformed)) }
    /\ cache \in { NoFile,
                   File(Tok("nsct_", "jwt", "A", StartSeconds + 30, 0)),
                   File(Tok("nsct_", "jwt", "A", StartSeconds + 8000, 0)) }
    /\ cacheMode \in (IF cache.exists THEN {OwnerOnly, WorldReadable} ELSE {NoMode})
    /\ calls = [s \in Slots |-> IdleCall]
    /\ started = 0
    /\ issuerCalls = 0
    /\ minted = 0
    /\ tokenFileEnv = FALSE
    /\ tokenFileName = "token.json"
    /\ files = [p \in Paths |-> FileMissing]
    /\ load = NotLoaded
    /\ credential = NoCredential
    /\ claims = NotExtracted
    /\ expired = NotAsked
    /\ requests = [s \in Slots |-> NoRequest]

\* token.ts:208  issueToken called by the program itself
StartConcurrent(s, minDuration, force) ==
    /\ Start(s, minDuration, force)
    /\ UNCHANGED requests

NextConc ==
    \/ \E s \in Slots, f \in BOOLEAN : StartConcurrent(s, 5 * 60 * 1000, f)
    \/ \E s \in Slots : ReadCacheOk(s)
    \/ \E s \in Slots : ReadCacheErr(s)
    \/ \E s \in Slots : IssuerRespond(s)
    \/ \E s \in Slots, e \in IssuerErrors : IssuerFail(s, e)
    \/ \E s \in Slots : WriteCacheOk(s)
    \/ \E s \in Slots : WriteCacheErr(s)
    \/ \E s \in Slots : Return(s)
    \/ Tick

SpecConc == InitConc /\ [][NextConc]_vars

\* Every I/O operation a call has started completes: the cache read, the
\* issuer's request and the cache write each resolve or reject.
IoCompletes ==
    \A s \in Slots :
        /\ WF_vars(ReadCacheOk(s) \/ ReadCacheErr(s))
        /\ WF_vars(IssuerRespond(s) \/ \E e \in IssuerErrors : IssuerFail(s, e))
        /\ WF_vars(WriteCacheOk(s) \/ WriteCacheErr(s))

SpecConcFair == SpecConc /\ IoCompletes

\* ------------------------------------------------- one call after another
\* Non-forced calls made one after the other by a caller that keeps what
\* the earlier call resolved with: a call is made when no other is
\* suspended.
InitTwice ==
    /\ now = NowStart
    /\ nscDebug = {}
    /\ ctor = "loadFromFile"
    /\ source = loadFromFile(TokenJson(Undefined, SessionA))
    /\ cache \in { NoFile, File(Tok("nsct_", "jwt", "A", StartSeconds + 30, 0)) }
    /\ cacheMode = IF cache.exists THEN OwnerOnly ELSE NoMode
    /\ calls = [s \in Slots |-> IdleCall]
    /\ started = 0
    /\ issuerCalls = 0
    /\ minted = 0
    /\ tokenFileEnv = FALSE
    /\ tokenFileName = "token.json"
    /\ files = [p \in Paths |-> FileMissing]
    /\ load = NotLoaded
    /\ credential = NoCredential
    /\ claims = NotExtracted
    /\ expired = NotAsked
    /\ requests = [s \in Slots |-> NoRequest]

StartNext(s, minDuration, force) ==
    /\ \A o \in Slots : calls[o].pc \in {"idle", "done", "failed"}
    /\ Start(s, minDuration, force)
    /\ UNCHANGED requests

NextTwice ==
    \/ \E s \in Slots, d \in MinDurations : StartNext(s, d, FALSE)
    \/ \E s \in Slots : ReadCacheOk(s)
    \/ \E s \in Slots : ReadCacheErr(s)
    \/ \E s \in Slots : IssuerRespond(s)
    \/ \E s \in Slots, e \in IssuerErrors : IssuerFail(s, e)
    \/ \E s \in Slots : WriteCacheOk(s)
    \/ \E s \in Slots : WriteCacheErr(s)
    \/ \E s \in Slots : Return(s)
    \/ Tick

SpecTwice == InitTwice /\ [][NextTwice]_vars

\* ------------------------------------------------------- the interceptor
\* api/index.ts:31-32  the interceptor is called with a request and awaits
\* source.issueToken(minDuration)
Intercept(s, minDurationArg) ==
    /\ requests[s].pc = "none"
    /\ LET call == InterceptorCall(minDurationArg)
       IN  /\ Start(s, call.minDuration, call.force)
           /\ requests' = [requests EXCEPT ![s] =
                 [NoRequest EXCEPT !.pc = "awaiting", !.arg = minDurationArg,
                                   !.minDuration = call.minDuration,
                                   !.force = call.force, !.nIssueToken = 1]]

\* api/index.ts:33-34  issueToken resolved: the header is set and the
\* request handed to next
Forward(s) ==
    /\ requests[s].pc = "awaiting"
    /\ calls[s].pc = "done"
    /\ requests' = [requests EXCEPT ![s] =
          [@ EXCEPT !.pc = "forwarded", !.token = calls[s].result,
                    !.header = BearerHeader(calls[s].result)]]
    /\ calls' = [calls EXCEPT ![s] = IdleCall]
    /\ UNCHANGED <<now, nscDebug, ctor, source, cache, started, issuerCalls, minted>>
    /\ UNCHANGED <<loadVars, parserVars, cacheMode>>

\* api/index.ts:32  issueToken rejected: the await throws, the interceptor
\* rejects with the same error and next is not called
Propagate(s) ==
    /\ requests[s].pc = "awaiting"
    /\ calls[s].pc = "failed"
    /\ requests' = [requests EXCEPT ![s] = [@ EXCEPT !.pc = "failed", !.error = calls[s].error]]
    /\ calls' = [calls EXCEPT ![s] = IdleCall]
    /\ UNCHANGED <<now, nscDebug, ctor, source, cache, started, issuerCalls, minted>>
    /\ UNCHANGED <<loadVars, parserVars, cacheMode>>

\* The request is over: its response or its error has reached the caller.
Finish(s) ==
    /\ requests[s].pc \in {"forwarded", "failed"}
    /\ calls[s].pc = "idle"
    /\ requests' = [requests EXCEPT ![s] = NoRequest]
    /\ UNCHANGED <<now, nscDebug, ctor, source, cache, calls, started, issuerCalls, minted>>
    /\ UNCHANGED <<loadVars, parserVars, cacheMode>>

\* Requests of a client whose transport has the interceptor, on a source
\* with a session credential, with a bearer credential only, or with none.
InitRpc ==
    /\ now = NowStart
    /\ nscDebug \in {{}, {"force-auth-refresh"}}
    /\ \E c \in { <<"loadFromFile", loadFromFile(TokenJson(Undefined, SessionA))>>,
                   <<"loadFromFile", loadFromFile(TokenJson(Undefined, Undefined))>>,
                   <<"fromBearerToken", fromBearerToken(StaticBearer)>> } :
          ctor = c[1] /\ source = c[2]
    /\ cache \in { NoFile, File(Tok("nsct_", "jwt", "A", StartSeconds + 8000, 0)) }
    /\ cacheMode = IF cache.exists THEN OwnerOnly ELSE NoMode
    /\ calls = [s \in Slots |-> IdleCall]
    /\ started = 0
    /\ issuerCalls = 0
    /\ minted = 0
    /\ tokenFileEnv = FALSE
    /\ tokenFileName = "token.json"
    /\ files = [p \in Paths |-> FileMissing]
    /\ load = NotLoaded
    /\ credential = NoCredential
    /\ claims = NotExtracted
    /\ expired = NotAsked
    /\ requests = [s \in Slots |-> NoRequest]

NextRpc ==
    \/ \E s \in Slots, a \in InterceptorArgs : Intercept(s, a)
    \/ \E s \in Slots : ReadCacheOk(s)
    \/ \E s \in Slots : ReadCacheErr(s)
    \/ \E s \in Slots : IssuerRespond(s)
    \/ \E s \in Slots, e \in IssuerErrors : IssuerFail(s, e)
    \/ \E s \in Slots : WriteCacheOk(s)
    \/ \E s \in Slots : WriteCacheErr(s)
    \/ \E s \in Slots : Forward(s)
    \/ \E s \in Slots : Propagate(s)
    \/ \E s \in Slots : Finish(s)

SpecRpc == InitRpc /\ [][NextRpc]_vars

\* ================================================================ claims
SessionBacked == Truthy(source.sessionToken)
SessionTenant == extractClaims(source.sessionToken).tenant_id

\* The call read a credential from the cache and returned that credential.
ServedFromCache(c) == c.pc = "done" /\ c.cacheRead = "ok" /\ c.result = c.seen

\* A non-forced call that went past the cache without being served from it.
Missed(c) == ~c.forceRefresh /\ c.cacheRead # "none" /\ ~ServedFromCache(c)

\* The smaller of twice the minimum duration and one hour, in milliseconds.
TwiceCappedMs(d) == IF 2 * d < 3600000 THEN 2 * d ELSE 3600000

\* C1: a non-forced issueToken(minDuration) on a session-backed source that
\* finds in the cache a credential whose expiration is strictly greater than
\* now + minDuration (now as read at the freshness check) and whose tenant
\* equals the session credential's tenant returns exactly that credential and
\* sends no request to the issuer.
C1_CacheHit ==
    \A s \in Slots :
        LET c == calls[s]
        IN  ( /\ SessionBacked
              /\ ~c.forceRefresh
              /\ c.cacheRead = "ok"
              /\ c.seen.kind = "jwt"
              /\ c.seen.exp # NoExp
              /\ c.seen.exp * 1000 > c.checkedAt + c.minDuration
              /\ c.seen.tenant_id = SessionTenant )
            => (c.pc = "done" /\ c.result = c.seen /\ c.nIssuer = 0)

C1_Witness ==
    \E s \in Slots :
        /\ SessionBacked
        /\ ServedFromCache(calls[s])
        /\ ~calls[s].force
        /\ calls[s].minDuration = 300000
        /\ calls[s].nIssuer = 0
        /\ issuerCalls = 0

\* C2: a cached credential that carries tenant A is never returned when the
\* session credential carries another tenant B, however late it expires; the
\* call sends one request to the issuer and returns the issuer's credential.
C2_TenantMismatch ==
    \A s \in Slots :
        LET c == calls[s]
        IN  ( /\ SessionBacked
              /\ SessionTenant \in Tenants
              /\ c.cacheRead = "ok"
              /\ c.seen.kind = "jwt"
              /\ c.seen.tenant_id \in Tenants
              /\ c.seen.tenant_id # SessionTenant )
            => /\ c.nIssuer = 1
               /\ c.pc = "done" => (c.result = c.newToken /\ c.result # c.seen)

C2_Witness ==
    \E s \in Slots :
        /\ SessionTenant = "A"
        /\ calls[s].pc = "done"
        /\ calls[s].cacheRead = "ok"
        /\ calls[s].seen.tenant_id = "B"
        /\ calls[s].seen.exp * 1000 > now + 2 * 3600000
        /\ calls[s].result = calls[s].newToken
        /\ calls[s].result.tenant_id = "A"

\* C3: a cached credential whose expiration is at or before now + minDuration
\* is never returned by issueToken(minDuration): the call sends a request to
\* the issuer and returns the issuer's credential.  Expiration equal to
\* now + minDuration counts as stale.
C3_Stale ==
    \A s \in Slots :
        LET c == calls[s]
        IN  ( /\ SessionBacked
              /\ c.cacheRead = "ok"
              /\ c.seen.kind = "jwt"
              /\ c.seen.exp # NoExp
              /\ c.seen.exp * 1000 <= c.checkedAt + c.minDuration )
            => /\ c.nIssuer = 1
               /\ c.pc = "done" => (c.result = c.newToken /\ c.result # c.seen)

C3_Witness ==
    \E s \in Slots :
        /\ calls[s].pc = "done"
        /\ calls[s].cacheRead = "ok"
        /\ calls[s].seen.tenant_id = SessionTenant
        /\ calls[s].minDuration = 300000
        /\ calls[s].seen.exp * 1000 = calls[s].checkedAt + calls[s].minDuration
        /\ calls[s].result = calls[s].newToken

\* C4: when force is true or the debug flag force-auth-refresh is set, a call
\* on a session-backed source does not read the cache and sends a request to
\* the issuer, also when the cache holds a usable credential of the same
\* tenant; it returns the issuer's credential.
C4_ForcedRefresh ==
    \A s \in Slots :
        LET c == calls[s]
        IN  ( /\ SessionBacked
              /\ c.pc # "idle"
              /\ (c.force \/ "force-auth-refresh" \in nscDebug) )
            => /\ c.cacheRead = "none"
               /\ c.nIssuer = 1
               /\ c.pc # "read"
               /\ c.pc = "done" => (c.result = c.newToken /\ c.result # cache.content)

C4_Witness ==
    \E s \in Slots :
        /\ calls[s].pc = "done"
        /\ ~calls[s].force
        /\ "force-auth-refresh" \in nscDebug
        /\ cache.exists
        /\ cache.content.kind = "jwt"
        /\ cache.content.tenant_id = SessionTenant
        /\ cache.content.exp * 1000 > now + calls[s].minDuration
        /\ calls[s].minDuration > 0
        /\ calls[s].result # cache.content
        /\ calls[s].result = calls[s].newToken

\* C5: on a source constructed with a bearer credential and no session
\* credential (fromBearerToken, a credential file with only a bearer field,
\* or loadWorkloadToken) every issueToken call returns the static bearer
\* credential at once, whatever minDuration and force; no request is sent to
\* the issuer and the cache file is neither read nor written.
C5_BearerPassthrough ==
    ( \/ ctor \in {"fromBearerToken", "loadWorkloadToken"}
      \/ (~Truthy(source.sessionToken) /\ Truthy(source.bearerToken)) )
    => /\ issuerCalls = 0
       /\ minted = 0
       /\ \A s \in Slots :
             LET c == calls[s]
             IN  c.pc # "idle"
                 => /\ c.pc = "done"
                    /\ c.result = source.bearerToken
                    /\ Truthy(c.result)
                    /\ c.nIssuer = 0
                    /\ c.cacheRead = "none"
                    /\ c.cacheWrite = "none"

C5_Witness ==
    \E s \in Slots :
        /\ ctor = "loadWorkloadToken"
        /\ calls[s].pc = "done"
        /\ calls[s].force
        /\ calls[s].minDuration = 7200000
        /\ calls[s].result = StaticBearer
        /\ started = 2

\* C6: every credential returned by issueToken(minDuration, force) on a
\* session-backed source is valid for at least minDuration when it is
\* returned (the issuer mints the lifetime it is asked for).
C6_MinimumValidity ==
    \A s \in Slots :
        LET c == calls[s]
        IN  (SessionBacked /\ c.pc = "done")
            => c.result.exp * 1000 - c.settledAt >= c.minDuration

C8_PersistOnMiss ==
    \A s \in Slots :
        LET c == calls[s]
        IN  (SessionBacked /\ Missed(c) /\ c.pc = "done")
            => /\ c.cacheWrite \in {"ok", "error"}
               /\ c.result = c.newToken
               /\ c.cacheWrite = "ok"
                    => /\ cache = File(c.newToken)
                       /\ c.written = cache
                       /\ extractClaims(cache.content).tenant_id = SessionTenant

C8_Witness ==
    \E s \in Slots :
        /\ Missed(calls[s])
        /\ calls[s].pc = "done"
        /\ calls[s].cacheRead = "ok"
        /\ calls[s].cacheWrite = "ok"
        /\ calls[s].seen # calls[s].result
        /\ cache.content = calls[s].result
        /\ SessionTenant = "A"

\* C9: the request a forced call sends to the issuer asks for the lifetime
\* a miss with the same minDuration asks for, min(2 * minDuration, 1 hour)
\* (in the whole seconds the request carries).
C9_ForcedLifetime ==
    \A s \in Slots :
        LET c == calls[s]
        IN  (SessionBacked /\ c.forceRefresh /\ c.nIssuer > 0)
            => c.requested = TwiceCappedMs(c.minDuration) \div 1000

\* C10: after every successful exchange, forced ones included, the cache
\* file holds the credential just issued, unless writing it failed.
C10_CacheAfterExchange ==
    \A s \in Slots :
        LET c == calls[s]
        IN  (SessionBacked /\ c.pc = "done" /\ c.result = c.newToken /\ c.cacheWrite # "error")
            => cache = File(c.newToken)

\* C11: every issueToken call sends at most one request to the issuer; when
\* that request fails the call fails with the issuer's error as it is, no
\* second request is sent, and token.cache is as it was before the call.
C11_NoRetry ==
    /\ issuerCalls <= started
    /\ \A s \in Slots :
          LET c == calls[s]
          IN  /\ c.nIssuer <= 1
              /\ c.issuerError # ""
                   => /\ c.pc = "failed"
                      /\ c.error = c.issuerError
                      /\ c.error \in {"unavailable", "unauthenticated"}
                      /\ c.nIssuer = 1
                      /\ c.cacheWrite = "none"
                      /\ cache = c.cacheBefore

C11_Witness ==
    \E s \in Slots :
        /\ calls[s].pc = "failed"
        /\ calls[s].error = "unavailable"
        /\ ~calls[s].forceRefresh
        /\ calls[s].cacheRead = "ok"
        /\ cache.exists
        /\ cache = calls[s].cacheBefore
        /\ issuerCalls = 1

\* C12: on a session-backed source with a well-formed session credential, a
\* cache file that is missing, unreadable or unparsable never makes a
\* non-forced call fail: the call sends one request to the issuer and
\* returns its credential when the request succeeds (it fails only with the
\* issuer's error).
C12_CacheReadAbsorbed ==
    \A s \in Slots :
        LET c == calls[s]
        IN  ( /\ SessionBacked
              /\ ~extractClaims(source.sessionToken).isNull
              /\ ~c.forceRefresh
              /\ (c.cacheRead = "error" \/ (c.cacheRead = "ok" /\ c.seen.kind # "jwt")) )
            => /\ c.nIssuer = 1
               /\ c.pc \in {"issue", "write", "done", "failed"}
               /\ c.pc = "failed" => (c.issuerError # "" /\ c.error = c.issuerError)
               /\ c.pc = "done" => (c.result = c.newToken /\ Truthy(c.result))

C12_Witness ==
    \E s \in Slots :
        /\ calls[s].pc = "done"
        /\ ~calls[s].forceRefresh
        /\ calls[s].cacheRead = "error"
        /\ calls[s].cacheBefore.exists
        /\ calls[s].result = calls[s].newToken
        /\ calls[s].nIssuer = 1

C14_MalformedSession ==
    \A s \in Slots :
        LET c == calls[s]
        IN  (SessionBacked /\ extractClaims(source.sessionToken).isNull /\ c.pc # "idle")
            => /\ c.pc = "failed"
               /\ c.error = "Failed to extract claims from session token"
               /\ c.nIssuer = 0
               /\ c.cacheRead = "none"

\* C15: a source with neither a bearer nor a session credential fails every
\* issueToken call with "No bearer token or session token available"; no
\* request is sent to the issuer and the cache is not accessed.
C15_NoCredential ==
    (~Truthy(source.sessionToken) /\ ~Truthy(source.bearerToken))
    => /\ issuerCalls = 0
       /\ \A s \in Slots :
             LET c == calls[s]
             IN  c.pc # "idle"
                 => /\ c.pc = "failed"
                    /\ c.error = "No bearer token or session token available"
                    /\ c.nIssuer = 0
                    /\ c.cacheRead = "none"
                    /\ c.cacheWrite = "none"
                    /\ cache = c.cacheBefore

C15_Witness ==
    \E s \in Slots :
        /\ ctor = "loadFromFile"
        /\ ~Truthy(source.sessionToken)
        /\ ~Truthy(source.bearerToken)
        /\ calls[s].pc = "failed"
        /\ calls[s].force
        /\ started = 2

\* C16: on a source loaded from a credential file with both a bearer and a
\* session field every issueToken call goes through the session exchange:
\* what it returns is a cached or a newly issued credential, never the
\* file's bearer field, also when the issuer fails or the session credential
\* is malformed (the call then fails).
C16_SessionDominant ==
    (ctor = "loadFromFile" /\ Truthy(source.bearerToken) /\ Truthy(source.sessionToken))
    => \A s \in Slots :
          LET c == calls[s]
          IN  /\ c.pc = "done"
                   => /\ c.result # source.bearerToken
                      /\ \/ ServedFromCache(c)
                         \/ (c.result = c.newToken /\ c.nIssuer = 1)
              /\ c.pc = "failed"
                   => \/ (c.issuerError # "" /\ c.error = c.issuerError)
                      \/ ( /\ c.error = "Failed to extract claims from session token"
                           /\ extractClaims(source.sessionToken).isNull )

C16_Witness ==
    \E s \in Slots :
        /\ ctor = "loadFromFile"
        /\ source.bearerToken = StaticBearer
        /\ source.sessionToken = SessionA
        /\ calls[s].pc = "failed"
        /\ calls[s].error = "unavailable"
        /\ ~calls[s].forceRefresh

\* The file a loader targets by the resolution order: the override when
\* NSC_TOKEN_FILE is set (loadDefaults, loadWorkloadToken), else the workload
\* file (loadWorkloadToken; loadDefaults when it exists), else the user file.
TargetPath ==
    CASE load.loader = "loadUserToken" -> "user"
      [] load.loader = "loadWorkloadToken" ->
            IF tokenFileEnv THEN "override" ELSE "workload"
      [] OTHER ->
            IF tokenFileEnv THEN "override"
            ELSE IF files["workload"].state # "missing" THEN "workload" ELSE "user"

\* C17: loadUserToken, loadWorkloadToken and loadDefaults reject with
\* NotLoggedInError exactly when the file they target does not exist; a
\* targeted file that cannot be read or parsed makes them reject with another
\* error.  (Read when the loader has settled and no issueToken call has
\* been made on the source: the files are then as the loader found them.)
C17_NotLoggedIn ==
    (load.loader # "none" /\ started = 0)
    => /\ (load.result.error = "NotLoggedInError") <=> (files[TargetPath].state = "missing")
       /\ files[TargetPath].state \in {"unreadable", "invalid"}
            => /\ ~load.result.ok
               /\ load.result.error \notin {"", "NotLoggedInError"}

\* C18: with NSC_TOKEN_FILE set, loadDefaults reads only that file: it
\* resolves with the source loaded from it or rejects with the error of
\* loading it (NotLoggedInError when it does not exist), and accesses
\* neither the workload nor the user location.  (Read when the loader has
\* settled and no issueToken call has been made on the source.)
C18_OverrideFinal ==
    (load.loader = "loadDefaults" /\ tokenFileEnv /\ started = 0)
    => /\ load.result.touched = {"override"}
       /\ files["override"].state = "missing"
            => (~load.result.ok /\ load.result.error = "NotLoggedInError")
       /\ files["override"].state = "unreadable"
            => (~load.result.ok /\ load.result.error = "EACCES")
       /\ files["override"].state = "invalid"
            => (~load.result.ok /\ load.result.error = "SyntaxError")
       /\ files["override"].state = "json"
            => /\ load.result.ok
               /\ load.result.source.bearerToken = files["override"].json.bearer_token
               /\ load.result.source.sessionToken = files["override"].json.session_token

C18_Witness ==
    /\ load.loader = "loadDefaults"
    /\ tokenFileEnv
    /\ files["override"].state = "missing"
    /\ files["workload"].state = "json"
    /\ files["user"].state = "json"
    /\ ~load.result.ok
    /\ load.result.error = "NotLoggedInError"

\* C19: with NSC_TOKEN_FILE unset, loadDefaults goes on to the user file if
\* and only if the workload file does not exist; when the workload file
\* exists the outcome of loadDefaults is the outcome of loading it, and the
\* user location is not accessed.
C19_WorkloadProbe ==
    (load.loader = "loadDefaults" /\ ~tokenFileEnv)
    => /\ ("user" \in load.result.touched) <=> (files["workload"].state = "missing")
       /\ files["workload"].state # "missing"
            => /\ load.result.ok = (files["workload"].state = "json")
               /\ files["workload"].state = "unreadable" => load.result.error = "EACCES"
               /\ files["workload"].state = "invalid" => load.result.error = "SyntaxError"
               /\ files["workload"].state = "json"
                    => /\ load.result.source.bearerToken = files["workload"].json.bearer_token
                       /\ load.result.source.sessionToken = files["workload"].json.session_token

\* C20: loadWorkloadToken rejects with "Workload token file does not contain
\* a bearer token" when the targeted file has no bearer credential (a
\* session-only file included); when it resolves, the source holds the
\* file's bearer credential and no session credential, also when the file
\* has one, so every issueToken call on it returns the bearer credential
\* without a request to the issuer and without touching the cache.
C20_WorkloadBearerOnly ==
    load.loader = "loadWorkloadToken"
    => LET f == files[IF tokenFileEnv THEN "override" ELSE "workload"]
       IN  /\ (f.state = "json" /\ ~Truthy(f.json.bearer_token))
                => /\ ~load.result.ok
                   /\ load.result.error = "Workload token file does not contain a bearer token"
           /\ load.result.ok
                => /\ f.state = "json"
                   /\ Truthy(f.json.bearer_token)
                   /\ source.bearerToken = f.json.bearer_token
                   /\ ~Truthy(source.sessionToken)
                   /\ issuerCalls = 0
                   /\ \A s \in Slots :
                         LET c == calls[s]
                         IN  c.pc # "idle"
                             => /\ c.pc = "done"
                                /\ c.result = f.json.bearer_token
                                /\ c.nIssuer = 0
                                /\ c.cacheRead = "none"
                                /\ c.cacheWrite = "none"
                                /\ cache = c.cacheBefore

C20_Witness ==
    \E s \in Slots :
        /\ load.loader = "loadWorkloadToken"
        /\ ~tokenFileEnv
        /\ files["workload"] = JsonFile(TokenJson(StaticBearer, SessionA))
        /\ load.result.ok
        /\ calls[s].pc = "done"
        /\ calls[s].force
        /\ calls[s].result = StaticBearer
        /\ started = 2

\* C21: for every JSON object J and every credential built as
\* header "." base64url(J) "." sig, with or without one of the prefixes
\* st_, nsct_, nscw_, oidc_, cognito_ before it, extractClaims returns an
\* object deep-equal to J.
C21_RoundTrip ==
    (claims.called /\ credential.kind = "built")
    => /\ claims.result.t = "object"
       /\ claims.result = ObjectOf(credential.J)

C21_Witness ==
    /\ claims.called
    /\ credential.kind = "built"
    /\ startsWith(credential.text, prefixes[5] \o <<115, 116, 95, 120, 46>>)
    /\ claims.result.t = "object"
    /\ DOMAIN claims.result.m = {SubName, ActName}
    /\ claims.result.m[SubName] = JString(<<63, 62, 126>>)
    /\ claims.result.m[ActName].m[ExpName] = JNumber(1)

\* C22: extractClaims returns a claims object or null for every string and
\* never throws; it returns null whenever the string without its prefix has
\* not exactly three dot-separated segments, or its second segment is no
\* valid base64url, or the decoded second segment is no JSON object.
C22_NullOnMalformed ==
    claims.called
    => /\ claims.result.t \in {"object", "null"}
       /\ credential.kind \in {"segments", "base64", "json", "nonobject"}
            => claims.result.t = "null"

\* C23: isTokenExpired(claims, buffer) is true if and only if the claims
\* have an expiration and now + buffer >= expiration (in ms), for every
\* expiration that is present, 0 included; it is false without one; the
\* buffer is 60000 ms when left out.
C23_Expired ==
    expired.called
    => LET buffer == IF expired.bufferArg = NoBuffer THEN 60000 ELSE expired.bufferArg
           present == ExpName \in DOMAIN claims.result.m
       IN  expired.value
             <=> (present /\ expired.at + buffer >= claims.result.m[ExpName].n * 1000)

\* C24: when two issueToken calls on the same session-backed source run
\* concurrently and both miss the cache, each sends its own request to the
\* issuer and attempts its own cache write, each returns the credential its
\* own request was answered with, none fails (other than with its own
\* issuer error) or is held up because of the other, and after every write
\* token.cache holds the credential of that write, the last one included.
C24_ConcurrentMisses ==
    /\ []( (\A s \in Slots : calls[s].pc # "idle" /\ Missed(calls[s]))
            => /\ \A s \in Slots :
                     LET c == calls[s]
                     IN  /\ c.nIssuer = 1
                         /\ c.pc = "done"
                              => /\ c.result = c.newToken
                                 /\ Truthy(c.result)
                                 /\ c.cacheWrite \in {"ok", "error"}
                         /\ c.pc = "failed" => (c.issuerError # "" /\ c.error = c.issuerError)
                         /\ c.pc \in {"issue", "write", "done", "failed"}
                         /\ c.pc = "issue" => ENABLED IssuerRespond(s)
                         /\ c.pc = "write" => ENABLED WriteCacheOk(s)
               /\ (\A s \in Slots : calls[s].pc = "done")
                    => /\ calls[1].result # calls[2].result
                       /\ minted >= 2
                       /\ issuerCalls >= 2 )
    /\ [][ /\ \A s \in Slots :
                (calls[s].pc = "write" /\ calls'[s].pc = "done" /\ calls'[s].cacheWrite = "ok")
                => cache' = File(calls'[s].result)
           /\ cache' # cache
                => \E s \in Slots : calls[s].pc = "write" /\ calls'[s].cacheWrite = "ok" ]_vars

C24_Witness ==
    /\ \A s \in Slots :
          /\ calls[s].pc = "done"
          /\ Missed(calls[s])
          /\ calls[s].cacheRead = "error"
          /\ calls[s].cacheWrite = "ok"
    /\ issuerCalls = 2
    /\ calls[1].result.jti = 1
    /\ calls[2].result.jti = 2
    /\ cache = File(calls[1].result)

\* C25: for every outbound request the interceptor calls issueToken once,
\* with its minDuration (5 minutes when left out) and without force; the
\* request is forwarded only when that call has returned, with the header
\* "Bearer " followed by the returned credential; when the call fails the
\* request is not forwarded and the call's error is the interceptor's.
C25_Interceptor ==
    /\ [](\A s \in Slots :
            LET r == requests[s]
                c == calls[s]
            IN  /\ r.pc # "none"
                     => /\ r.nIssueToken = 1
                        /\ ~r.force
                        /\ r.minDuration = (IF r.arg = NoMinDuration THEN 300000 ELSE r.arg)
                /\ (c.pc # "idle") <=> (r.pc = "awaiting")
                /\ r.pc = "awaiting"
                     => /\ c.minDuration = r.minDuration
                        /\ ~c.force
                        /\ r.header.scheme = ""
                /\ r.pc = "forwarded"
                     => /\ r.header.scheme = "Bearer "
                        /\ r.header.credentials = r.token
                        /\ Truthy(r.token)
                /\ r.pc = "failed" => (r.header.scheme = "" /\ r.error # ""))
    /\ [][\A s \in Slots :
             /\ (requests'[s].pc = "forwarded" /\ requests[s].pc # "forwarded")
                  => /\ requests[s].pc = "awaiting"
                     /\ calls[s].pc = "done"
                     /\ requests'[s].token = calls[s].result
             /\ (requests'[s].pc = "failed" /\ requests[s].pc # "failed")
                  => /\ requests[s].pc = "awaiting"
                     /\ calls[s].pc = "failed"
                     /\ requests'[s].error = calls[s].error
             /\ (calls[s].pc = "idle" /\ calls'[s].pc # "idle")
                  => (requests[s].pc = "none" /\ requests'[s].pc = "awaiting") ]_vars

C25_Witness ==
    /\ requests[1].pc = "forwarded"
    /\ requests[1].arg = NoMinDuration
    /\ requests[1].header.credentials.jti = 1
    /\ requests[1].header.credentials.exp = StartSeconds + 600
    /\ requests[2].pc = "failed"
    /\ requests[2].error = "unavailable"
    /\ requests[2].header = NoHeader

\* C26: after an issueToken call has written token.cache, the file has mode
\* 0600, whether the write created it or overwrote a file that was there
\* with other permissions.
C26_CacheFileMode ==
    \A s \in Slots : calls[s].cacheWrite = "ok" => cacheMode = "0600"

\* C27: when every I/O operation a call starts completes, the call settles
\* with a credential or an error; it is suspended at most once on a cache
\* read, then at most once on the issuer's request, then at most once on a
\* cache write, in that order: the write follows a successful answer of the
\* issuer only, and no read follows the request.
C27_StepOrder ==
    /\ [][\A s \in Slots :
             LET c == calls[s]
                 d == calls'[s]
             IN  /\ d.pc = "read" => c.pc \in {"idle", "read"}
                 /\ d.pc = "issue" => c.pc \in {"idle", "read", "issue"}
                 /\ d.pc = "write"
                      => /\ c.pc \in {"issue", "write"}
                         /\ Truthy(d.newToken)
                         /\ d.issuerError = ""
                 /\ c.pc = "read" => d.pc \in {"read", "issue", "done"}
                 /\ c.pc = "issue" => d.pc \in {"issue", "write", "done", "failed"}
                 /\ c.pc = "write" => d.pc \in {"write", "done"}
                 /\ c.pc \in {"done", "failed"} => d.pc \in {c.pc, "idle"}
                 /\ (c.pc = d.pc /\ c.pc # "idle") => d = c
                 /\ d.nIssuer <= 1 ]_vars
    /\ \A s \in Slots :
          (calls[s].pc \in {"read", "issue", "write"}) ~> (calls[s].pc \in {"done", "failed"})

C27_Witness ==
    \E s \in Slots :
        /\ calls[s].pc = "done"
        /\ calls[s].cacheRead = "ok"
        /\ calls[s].nIssuer = 1
        /\ calls[s].cacheWrite = "ok"
        /\ calls[s].checkedAt < calls[s].issuedAt
        /\ calls[s].issuedAt < calls[s].settledAt

\* C28: a cached credential whose claims have no expiration never expires
\* for issueToken: with the session credential's tenant it is returned from
\* the cache for every minDuration, without a request to the issuer.
C28_NoExpirationCached ==
    \A s \in Slots :
        LET c == calls[s]
        IN  ( /\ SessionBacked
              /\ ~c.forceRefresh
              /\ c.cacheRead = "ok"
              /\ c.seen.kind = "jwt"
              /\ c.seen.exp = NoExp
              /\ c.seen.tenant_id = SessionTenant )
            => (c.pc = "done" /\ c.result = c.seen /\ c.nIssuer = 0)

\* C29: after a non-forced issueToken(minDuration) that got a credential
\* from the issuer (minted for the session's tenant with the lifetime asked
\* for) and wrote it to the cache, a second non-forced call with the same
\* minDuration made before any time has passed is served from the cache
\* with no request to the issuer, for every minDuration >= 0.
C29_Amortization ==
    \A o \in Slots, s \in Slots :
        LET first == calls[o]
            second == calls[s]
        IN  ( /\ o # s
              /\ first.pc = "done"
              /\ Missed(first)
              /\ first.nIssuer = 1
              /\ first.cacheWrite = "ok"
              /\ ~second.forceRefresh
              /\ second.minDuration = first.minDuration
              /\ second.cacheRead = "ok"
              /\ second.seen = first.newToken
              /\ second.checkedAt = first.issuedAt )
            => (second.pc = "done" /\ second.result = second.seen /\ second.nIssuer = 0)

\* C30: issueToken returns a cached credential only when the cached and the
\* session credential both carry a tenant identifier and the two are equal;
\* a cached credential without one is never returned, also when the session
\* credential has none either.
C30_TenantRequired ==
    \A s \in Slots :
        LET c == calls[s]
        IN  ServedFromCache(c)
            => /\ c.seen.tenant_id \in Tenants
               /\ SessionTenant \in Tenants
               /\ c.seen.tenant_id = SessionTenant

\* The text holds the session credential of the source: it is that
\* credential, or a JSON text with it as session_token.
Discloses(token) ==
    \/ token = source.sessionToken
    \/ ("json" \in DOMAIN token /\ token.json.session_token = source.sessionToken)

\* C31: in every run of issueToken calls on a session-backed source, the
\* session credential goes out only as the "Bearer" credentials of the
\* Authorization header of the requests sent to the issuer; no call returns
\* it, none writes it to token.cache, and whatever a call writes to
\* token.cache is the credential the issuer returned to that call.
C31_SessionConfined ==
    SessionBacked
    => \A s \in Slots :
          LET c == calls[s]
          IN  /\ c.nIssuer > 0 => c.authorization = BearerHeader(source.sessionToken)
              /\ c.nIssuer = 0 => c.authorization = NoHeader
              /\ c.pc = "done" => ~Discloses(c.result)
              /\ ~Discloses(c.newToken)
              /\ c.cacheWrite = "ok"
                   => /\ c.written = File(c.newToken)
                      /\ ~Discloses(c.written.content)
                      /\ c.newToken.jti \in 1..minted
                      /\ c.nIssuer >= 1
                      /\ c.issuerError = ""

\* C32: no loader and no issueToken call writes or deletes a credential
\* file (the file a source was loaded from still holds the JSON object it
\* was loaded from) or deletes token.cache; a call writes token.cache only
\* on a source loaded with the directory of its credential file, and only
\* after the issuer answered its request; a call served from the cache, a
\* call on a source without session credential and a call that failed
\* leave token.cache as it was when the call was made.
C32_Frame ==
    /\ load.result.ok
         => \E p \in load.result.touched :
               /\ files[p].state = "json"
               /\ source \in { loadFromFile(files[p].json), loadWorkloadToken(files[p].json) }
    /\ \A s \in Slots :
          LET c == calls[s]
          IN  /\ c.cacheBefore.exists => cache.exists
              /\ c.cacheWrite = "ok"
                   => /\ source.cacheDir
                      /\ ctor = "loadFromFile"
                      /\ c.nIssuer >= 1
                      /\ c.issuerError = ""
                      /\ Truthy(c.newToken)
                      /\ cache = File(c.newToken)
              /\ ( /\ c.pc \in {"done", "failed"}
                   /\ (ServedFromCache(c) \/ ~SessionBacked \/ c.pc = "failed") )
                   => (c.cacheWrite = "none" /\ cache = c.cacheBefore)

====
